---- MODULE Spec2Model ----
(***************************************************************************)
(* Autosave and title-derivation pipeline of the note Editor component    *)
(* (ui/components/Editor.tsx).                                            *)
(*                                                                         *)
(* Strings are sequences of one-character strings, so that trim, split    *)
(* and substring are computed as the code computes them.  React state is  *)
(* modelled with the value a closure of the last render sees kept apart   *)
(* from the value most recently set: saveTimeout / renderedTimeout and    *)
(* editableTitle / editableTitleRef.                                      *)
(***************************************************************************)
EXTENDS Integers, Sequences, FiniteSets, TLC

\* ------------------------------------------------------------------ bounds
\* number of loadNote fetches that may be in flight together
MaxFetches == 2
\* number of user inputs (edits of the document, edits and blurs of the title,
\* selections of a note) in a behaviour
MaxUserSteps == 3

\* ------------------------------------------------------- program constants
\* trimmed.substring(0, 100)
MaxTitleLen == 100

\* the delay handleAutoSave passes to setTimeout, in ms
SaveDelay == 2000

\* the notes of the signed-in user
Notes == {"A", "B"}
\* noteId null / '' (both falsy): no note selected
NoNote == ""
\* saveTimeout null
NoTimer == 0
\* note state null
NoRow == [id |-> NoNote]

\* ----------------------------------------------------------------- strings
Untitled == <<"U", "n", "t", "i", "t", "l", "e", "d">>
EmptyStr == <<>>

IsSpace(c) == c \in {" ", "\n", "\t"}

MinOf(S) == CHOOSE x \in S : \A y \in S : x <= y
MaxOf(S) == CHOOSE x \in S : \A y \in S : x >= y

\* String.prototype.trim
Trim(s) ==
  LET idx == {i \in 1..Len(s) : ~IsSpace(s[i])}
  IN  IF idx = {} THEN EmptyStr ELSE SubSeq(s, MinOf(idx), MaxOf(idx))

\* plainText.split('\n')
RECURSIVE Split(_)
Split(s) ==
  LET nl == {i \in 1..Len(s) : s[i] = "\n"}
  IN  IF nl = {} THEN <<s>>
      ELSE <<SubSeq(s, 1, MinOf(nl) - 1)>> \o Split(SubSeq(s, MinOf(nl) + 1, Len(s)))

\* substring returning the whole string
SubstringAll(s, n) == s

\* s.substring(0, n)
Substring0(s, n) == SubSeq(s, 1, IF Len(s) < n THEN Len(s) ELSE n)

\* generateTitle taking the literal first line, blank or not
generateTitleFirstLine(plainText) ==
  IF plainText = EmptyStr \/ Trim(plainText) = EmptyStr
  THEN Untitled
  ELSE Substring0(Trim(Head(Split(plainText))), MaxTitleLen)

\* generateTitle(plainText)
generateTitle(plainText) ==
  IF plainText = EmptyStr \/ Trim(plainText) = EmptyStr
  THEN Untitled
  ELSE LET lines == Split(plainText)
           nonblank == {i \in 1..Len(lines) : Len(Trim(lines[i])) > 0}
       IN  IF nonblank = {} THEN Untitled
           ELSE Substring0(Trim(lines[MinOf(nonblank)]), MaxTitleLen)

\* ------------------------------------------------------ the editing surface
\* editor.getText(): the document is kept as its flattened text
getText(d) == d
\* editor.getHTML(): markup around the text
getHTML(d) == <<"<p>">> \o d \o <<"</p>">>
\* editor.commands.setContent(content): '' clears, markup is parsed back
setContent(content) ==
  IF content = EmptyStr THEN EmptyStr ELSE SubSeq(content, 2, Len(content) - 1)

LongLine == [i \in 1..(MaxTitleLen + 1) |-> "x"]

\* documents the user can produce in the editing surface
ShortText == <<"\n", " ", "a", " ", "\n", "b">>
Texts ==
  { <<" ", "\n">>,
    ShortText,
    LongLine }

\* values the user can type into the title field
Titles ==
  { EmptyStr,
    Untitled,
    <<" ">>,
    <<" ", "M", " ">> }

\* ------------------------------------------------------------------- state
VARIABLES
  noteId,           \* prop noteId of the last render
  doc,              \* content of the editing surface
  shown,            \* note whose stored content was last put into the surface
  saveTimeout,      \* state saveTimeout, as last set
  renderedTimeout,  \* saveTimeout as seen by handleAutoSave of the last render
  editableTitle,    \* state editableTitle, as last set
  editableTitleRef, \* editableTitleRef.current
  note,             \* state note
  isSaving,         \* state isSaving
  lastSaved,        \* state lastSaved (0: null, else the commit that set it)
  timers,           \* scheduled, not yet fired setTimeout callbacks
  nextTimer,        \* next timer handle returned by setTimeout
  inflight,         \* upserts issued and not yet resolved
  nextCommit,       \* number of the next upsert issued
  fetches,          \* loadNote fetches in flight, per note
  store,            \* rows of table notes
  userSteps,        \* user inputs made so far
  typed,            \* the last value typed into the title field, and when
  resolved,         \* upserts that resolved, and how
  notes,            \* NotesPanel: state notes, the list shown
  requests,         \* NotesPanel: storage requests in flight
  now               \* the clock the timestamps are read from

vars == <<noteId, doc, shown, saveTimeout, renderedTimeout, editableTitle,
          editableTitleRef, note, isSaving, lastSaved, timers, nextTimer,
          inflight, nextCommit, fetches, store, userSteps, typed, resolved,
          notes, requests, now>>

\* the state of NotesPanel and the clock
panelVars == <<notes, requests, now>>

\* the state of Editor apart from its prop noteId
editorState == <<doc, shown, saveTimeout, renderedTimeout, editableTitle,
                 editableTitleRef, note, isSaving, lastSaved, timers, nextTimer,
                 inflight, nextCommit, fetches, typed>>

\* the state of Editor and the record of the requests that have resolved
editorVars == <<editorState, resolved>>

\* no title typed yet
NoEdit == [at |-> 0]

\* the rows saved before the session: A was given a title by the user, B still
\* carries the title derived from its text
InitStore ==
  [n \in Notes |->
     [id |-> n,
      title |-> IF n = "A" THEN <<" ", "M", " ">> ELSE generateTitle(ShortText),
      content |-> getHTML(ShortText),
      plain_text |-> getText(ShortText)]]

\* Editor is mounted with no note selected, or note A has been selected and
\* loaded
Init ==
  /\ saveTimeout = NoTimer
  /\ renderedTimeout = NoTimer
  /\ isSaving = FALSE
  /\ lastSaved = 0
  /\ timers = {}
  /\ nextTimer = 1
  /\ inflight = {}
  /\ nextCommit = 1
  /\ fetches = [n \in Notes |-> 0]
  /\ userSteps = 0
  /\ store = {InitStore[n] : n \in Notes}
  /\ typed = NoEdit
  /\ resolved = {}
  /\ notes = <<>>
  /\ requests = {}
  /\ now = 0
  /\ \/ /\ noteId = NoNote
        /\ doc = EmptyStr
        /\ shown = NoNote
        /\ editableTitle = Untitled
        /\ editableTitleRef = Untitled
        /\ note = NoRow
     \/ /\ noteId = "A"
        /\ doc = setContent(InitStore["A"].content)
        /\ shown = "A"
        /\ editableTitle = InitStore["A"].title
        /\ editableTitleRef = InitStore["A"].title
        /\ note = InitStore["A"]

\* --------------------------------------------------------------- operations
\* clearTimeout(handle): a fired or cleared handle is ignored
clearTimeout(ts, handle) == {t \in ts : t.id # handle}

\* the setTimeout callback of handleAutoSave: the closure keeps the noteId of
\* the render that created handleAutoSave and the arguments of the call.
\* The handle numbers the handleAutoSave calls; src records the caller (the
\* editor's onUpdate or the title's onBlur), delay the delay given to
\* setTimeout, issued the number of upserts
\* issued before the call, and shown which note's
\* content the surface displayed at the call.
NewTimer(content, plainText, src) ==
  [id |-> nextTimer, noteId |-> noteId, content |-> content,
   plainText |-> plainText, shown |-> shown, src |-> src,
   issued |-> nextCommit - 1, delay |-> SaveDelay]

\* handleAutoSave(content, plainText): saveTimeout is the value of the render
\* that created the callback
handleAutoSave(content, plainText, src) ==
  /\ timers' = (IF renderedTimeout # NoTimer
                THEN clearTimeout(timers, renderedTimeout)
                ELSE timers) \cup {NewTimer(content, plainText, src)}
  /\ saveTimeout' = nextTimer
  /\ nextTimer' = nextTimer + 1

\* the early returns without the trim of plainText
SaveGuardNoTrim(nid, plainText) ==
  /\ nid # NoNote
  /\ plainText # EmptyStr

\* the early returns without the test of noteId
SaveGuardNoId(nid, plainText) ==
  Trim(plainText) # EmptyStr

\* saveNote: the two early returns
SaveGuard(nid, plainText) ==
  /\ nid # NoNote
  /\ Trim(plainText) # EmptyStr

\* finalTitle with the explicit title trimmed
FinalTitleTrimmed(currentTitle, plainText) ==
  IF currentTitle = EmptyStr \/ Trim(currentTitle) = EmptyStr \/ currentTitle = Untitled
  THEN generateTitle(plainText)
  ELSE Trim(currentTitle)

\* finalTitle without the test of the trimmed title
FinalTitleNoBlankTest(currentTitle, plainText) ==
  IF currentTitle = EmptyStr \/ currentTitle = Untitled
  THEN generateTitle(plainText)
  ELSE currentTitle

\* saveNote: finalTitle
FinalTitle(currentTitle, plainText) ==
  IF currentTitle = EmptyStr \/ Trim(currentTitle) = EmptyStr \/ currentTitle = Untitled
  THEN generateTitle(plainText)
  ELSE currentTitle

\* noteData storing trimmedText as plain_text
NoteDataTrimmed(nid, content, plainText) ==
  [id |-> nid,
   title |-> FinalTitle(editableTitleRef, plainText),
   content |-> content,
   plain_text |-> Trim(plainText)]

\* saveNote: noteData
NoteData(nid, content, plainText) ==
  [id |-> nid,
   title |-> FinalTitle(editableTitleRef, plainText),
   content |-> content,
   plain_text |-> plainText]

\* saveNote reading the noteId of the last render
CurrentNoteId(t) == noteId

\* the noteId saveNote reads: the one of the closure the timer was created in
ClosureNoteId(t) == t.noteId

\* saveNote(content, plainText) of timer t, up to the await of the upsert.
\* The request keeps, next to noteData, the timer it came from, the title
\* editableTitleRef held and the note selected when it was issued.
saveNote(t) ==
  IF SaveGuard(ClosureNoteId(t), t.plainText)
  THEN /\ isSaving' = TRUE
       /\ inflight' = inflight \cup
            {[seq |-> nextCommit,
              data |-> NoteData(ClosureNoteId(t), t.content, t.plainText),
              timer |-> t, explicit |-> editableTitleRef, selected |-> noteId]}
       /\ nextCommit' = nextCommit + 1
  ELSE UNCHANGED <<isSaving, inflight, nextCommit>>

\* editor onUpdate: the user changes the document to d
ContentChange(d) ==
  /\ userSteps < MaxUserSteps
  /\ userSteps' = userSteps + 1
  /\ d # doc
  /\ doc' = d
  /\ handleAutoSave(getHTML(d), getText(d), "update")
  /\ UNCHANGED <<noteId, shown, renderedTimeout, editableTitle, editableTitleRef,
                 note, isSaving, lastSaved, inflight, nextCommit, fetches, store, typed, resolved, panelVars>>

\* a re-render of Editor: closures see the state as last set, and the effect
\* that syncs editableTitleRef runs
Render ==
  /\ renderedTimeout # saveTimeout \/ editableTitleRef # editableTitle
  /\ renderedTimeout' = saveTimeout
  /\ editableTitleRef' = editableTitle
  /\ UNCHANGED <<userSteps, noteId, doc, shown, saveTimeout, editableTitle, note, isSaving,
                 lastSaved, timers, nextTimer, inflight, nextCommit, fetches, store, typed, resolved, panelVars>>

\* title input onChange (a React event: rendered before it returns)
TitleChange(t) ==
  /\ userSteps < MaxUserSteps
  /\ userSteps' = userSteps + 1
  /\ noteId # NoNote
  /\ t # editableTitle
  /\ editableTitle' = t
  /\ editableTitleRef' = t
  /\ renderedTimeout' = saveTimeout
  /\ typed' = [at |-> nextTimer, title |-> t]
  /\ UNCHANGED <<noteId, doc, shown, saveTimeout, note, isSaving, lastSaved,
                 timers, nextTimer, inflight, nextCommit, fetches, store, resolved, panelVars>>

\* title input onBlur (a React event: rendered before it returns)
TitleBlur ==
  /\ userSteps < MaxUserSteps
  /\ userSteps' = userSteps + 1
  /\ noteId # NoNote
  /\ handleAutoSave(getHTML(doc), getText(doc), "blur")
  /\ renderedTimeout' = saveTimeout'
  /\ editableTitleRef' = editableTitle
  /\ UNCHANGED <<noteId, doc, shown, editableTitle, note, isSaving, lastSaved,
                 inflight, nextCommit, fetches, store, typed, resolved, panelVars>>

\* a timer whose callback stays scheduled after it ran
TimerFireAgain(t) ==
  /\ t \in timers
  /\ \A u \in timers : t.id <= u.id
  /\ timers' = timers
  /\ saveNote(t)
  /\ UNCHANGED <<userSteps, noteId, doc, shown, saveTimeout, renderedTimeout, editableTitle,
                 editableTitleRef, note, lastSaved, nextTimer, fetches, store, typed, resolved, panelVars>>

\* a setTimeout callback runs; all timers have the same delay, so they run in
\* the order they were scheduled
TimerFire(t) ==
  /\ t \in timers
  /\ \A u \in timers : t.id <= u.id
  /\ timers' = timers \ {t}
  /\ saveNote(t)
  /\ UNCHANGED <<userSteps, noteId, doc, shown, saveTimeout, renderedTimeout, editableTitle,
                 editableTitleRef, note, lastSaved, nextTimer, fetches, store, typed, resolved, panelVars>>

\* what is kept of the upsert r once it resolved: its number, its noteData,
\* the timer that issued it, and whether it succeeded
Resolution(r, ok) ==
  [seq |-> r.seq, data |-> r.data, timer |-> r.timer, ok |-> ok]

\* an insert that does not look for a row with the same id
upsertInsert(rows, noteData) == rows \cup {noteData}

\* .upsert(noteData) on table notes, whose primary key is id: the row with
\* the id of noteData gets the columns of noteData and keeps its other
\* columns, or noteData is inserted
upsert(rows, noteData) ==
  LET old == {x \in rows : x.id = noteData.id}
  IN  (rows \ old) \cup
        (IF old = {} THEN {noteData} ELSE {noteData @@ x : x \in old})

\* .select('*').eq('id', n).single(): the rows a fetch of note n finds
Select(rows, n) == {x \in rows : x.id = n}

\* an upsert whose response is dropped when a later upsert has resolved
UpsertOkLatest(r) ==
  /\ r \in inflight
  /\ inflight' = inflight \ {r}
  /\ store' = upsert(store, r.data)
  /\ note' = (IF r.seq > lastSaved THEN r.data ELSE note)
  /\ lastSaved' = (IF r.seq > lastSaved THEN r.seq ELSE lastSaved)
  /\ isSaving' = FALSE
  /\ resolved' = resolved \cup {Resolution(r, TRUE)}
  /\ UNCHANGED <<userSteps, noteId, doc, shown, saveTimeout, renderedTimeout, editableTitle,
                 editableTitleRef, timers, nextTimer, nextCommit, fetches, typed, panelVars>>

\* the upsert r resolves with the stored row
UpsertOk(r) ==
  /\ r \in inflight
  /\ inflight' = inflight \ {r}
  /\ store' = upsert(store, r.data)
  /\ note' = r.data
  /\ lastSaved' = r.seq
  /\ isSaving' = FALSE
  /\ resolved' = resolved \cup {Resolution(r, TRUE)}
  /\ UNCHANGED <<userSteps, noteId, doc, shown, saveTimeout, renderedTimeout, editableTitle,
                 editableTitleRef, timers, nextTimer, nextCommit, fetches, typed, panelVars>>

\* an upsert whose error is not thrown: the row and the save time are set
UpsertErrorSaved(r) ==
  /\ r \in inflight
  /\ inflight' = inflight \ {r}
  /\ note' = r.data
  /\ lastSaved' = r.seq
  /\ isSaving' = FALSE
  /\ resolved' = resolved \cup {Resolution(r, FALSE)}
  /\ UNCHANGED <<userSteps, noteId, doc, shown, saveTimeout, renderedTimeout, editableTitle,
                 editableTitleRef, timers, nextTimer, nextCommit, fetches, store, typed, panelVars>>

\* an upsert that is issued again when it fails
UpsertErrorRetry(r) ==
  /\ r \in inflight
  /\ inflight' = (inflight \ {r}) \cup {[r EXCEPT !.seq = nextCommit]}
  /\ nextCommit' = nextCommit + 1
  /\ resolved' = resolved \cup {Resolution(r, FALSE)}
  /\ UNCHANGED <<userSteps, noteId, doc, shown, saveTimeout, renderedTimeout, editableTitle,
                 editableTitleRef, note, isSaving, lastSaved, timers, nextTimer,
                 fetches, store, typed, panelVars>>

\* the upsert r resolves with an error
UpsertError(r) ==
  /\ r \in inflight
  /\ inflight' = inflight \ {r}
  /\ isSaving' = FALSE
  /\ resolved' = resolved \cup {Resolution(r, FALSE)}
  /\ UNCHANGED <<userSteps, noteId, doc, shown, saveTimeout, renderedTimeout, editableTitle,
                 editableTitleRef, note, lastSaved, timers, nextTimer, nextCommit,
                 fetches, store, typed, panelVars>>

FetchesInFlight == fetches["A"] + fetches["B"]

\* MainApp renders Editor with another noteId; the effects of that render run
SelectNote(n) ==
  /\ userSteps < MaxUserSteps
  /\ userSteps' = userSteps + 1
  /\ n # noteId
  /\ noteId' = n
  /\ renderedTimeout' = saveTimeout
  /\ editableTitleRef' = editableTitle
  /\ IF n = NoNote
     THEN /\ doc' = setContent(EmptyStr)
          /\ shown' = NoNote
          /\ note' = NoRow
          /\ editableTitle' = Untitled
          /\ UNCHANGED fetches
     ELSE /\ FetchesInFlight < MaxFetches
          /\ fetches' = [fetches EXCEPT ![n] = @ + 1]
          /\ UNCHANGED <<doc, shown, note, editableTitle>>
  /\ UNCHANGED <<saveTimeout, isSaving, lastSaved, timers, nextTimer, inflight,
                 nextCommit, store, typed, resolved, panelVars>>

\* loadNote: the select of note n resolves with its row
LoadOk(n) ==
  /\ fetches[n] > 0
  /\ fetches' = [fetches EXCEPT ![n] = @ - 1]
  /\ Cardinality(Select(store, n)) = 1
  /\ LET data == CHOOSE x \in Select(store, n) : TRUE
     IN /\ note' = data
        /\ editableTitle' = (IF data.title = EmptyStr THEN Untitled ELSE data.title)
        /\ doc' = setContent(data.content)
  /\ shown' = n
  /\ UNCHANGED <<userSteps, noteId, saveTimeout, renderedTimeout, editableTitleRef, isSaving,
                 lastSaved, timers, nextTimer, inflight, nextCommit, store, typed, resolved, panelVars>>

\* loadNote: the select of note n resolves with an error
LoadError(n) ==
  /\ fetches[n] > 0
  /\ fetches' = [fetches EXCEPT ![n] = @ - 1]
  /\ UNCHANGED <<userSteps, noteId, doc, shown, saveTimeout, renderedTimeout, editableTitle,
                 editableTitleRef, note, isSaving, lastSaved, timers, nextTimer,
                 inflight, nextCommit, store, typed, resolved, panelVars>>

Next ==
  \/ \E d \in Texts : ContentChange(d)
  \/ Render
  \/ \E t \in Titles : TitleChange(t)
  \/ TitleBlur
  \/ \E t \in timers : TimerFire(t)
  \/ \E r \in inflight : UpsertOk(r)
  \/ \E r \in inflight : UpsertError(r)
  \/ \E n \in Notes \cup {NoNote} : SelectNote(n)
  \/ \E n \in Notes : LoadOk(n)
  \/ \E n \in Notes : LoadError(n)

Spec == Init /\ [][Next]_vars

\* ------------------------------------------------------------ NotesPanel
\* the id the insert of handleCreateNote returns
NewNote == "C"

\* a row of table notes with all its columns (0 stands for a null time)
FullRow(data, updatedAt) ==
  data @@ [is_deleted |-> FALSE, is_pinned |-> FALSE, pinned_at |-> 0,
           updated_at |-> updatedAt]

\* the comparator of loadNotes and handlePinNote: negative when a goes first
Compare(a, b) ==
  IF a.is_pinned /\ ~b.is_pinned THEN 0 - 1
  ELSE IF ~a.is_pinned /\ b.is_pinned THEN 1
  ELSE IF a.is_pinned /\ b.is_pinned THEN b.pinned_at - a.pinned_at
  ELSE b.updated_at - a.updated_at

\* Array.prototype.sort (stable): x is put before the first element it
\* compares less than
RECURSIVE InsertSorted(_, _)
InsertSorted(x, list) ==
  IF list = <<>> THEN <<x>>
  ELSE IF Compare(x, Head(list)) < 0 THEN <<x>> \o list
  ELSE <<Head(list)>> \o InsertSorted(x, Tail(list))

RECURSIVE SortNotes(_)
SortNotes(list) ==
  IF list = <<>> THEN <<>>
  ELSE InsertSorted(list[Len(list)], SortNotes(SubSeq(list, 1, Len(list) - 1)))

\* .order('updated_at', { ascending: false }): the rows as a list
RECURSIVE OrderByUpdated(_)
OrderByUpdated(rows) ==
  IF rows = {} THEN <<>>
  ELSE LET x == CHOOSE r \in rows : \A q \in rows : r.updated_at >= q.updated_at
       IN  <<x>> \o OrderByUpdated(rows \ {x})

\* prev.filter(note => note.id !== id)
RECURSIVE FilterOut(_, _)
FilterOut(list, id) ==
  IF list = <<>> THEN <<>>
  ELSE (IF Head(list).id = id THEN <<>> ELSE <<Head(list)>>) \o FilterOut(Tail(list), id)

\* the ids of the notes listed
Listed == {notes[i].id : i \in 1..Len(notes)}

\* requests of a panel that was closed: their setNotes calls do nothing
Unmounted(reqs) == {[q EXCEPT !.live = FALSE] : q \in reqs}

\* NotesPanel is mounted with loadNotes in flight; no note is selected; the
\* table holds the user's two notes
PanelInit ==
  /\ noteId = NoNote
  /\ doc = EmptyStr
  /\ shown = NoNote
  /\ editableTitle = Untitled
  /\ editableTitleRef = Untitled
  /\ note = NoRow
  /\ saveTimeout = NoTimer
  /\ renderedTimeout = NoTimer
  /\ isSaving = FALSE
  /\ lastSaved = 0
  /\ timers = {}
  /\ nextTimer = 1
  /\ inflight = {}
  /\ nextCommit = 1
  /\ fetches = [n \in Notes |-> 0]
  /\ userSteps = 0
  /\ typed = NoEdit
  /\ resolved = {}
  /\ store = {FullRow(InitStore["A"], 1), FullRow(InitStore["B"], 2)}
  /\ notes = <<>>
  /\ requests = {[kind |-> "load", id |-> NoNote, pin |-> FALSE, at |-> 0,
                   current |-> NoNote, live |-> TRUE]}
  /\ now = 3

\* a storage request of NotesPanel: current is the currentNoteId of the
\* render whose handler issued it, live tells whether that panel is mounted
Request(kind, id, pin, at) ==
  [kind |-> kind, id |-> id, pin |-> pin, at |-> at, current |-> noteId,
   live |-> TRUE]

\* the note with id n as listed
ListedNote(n) == notes[CHOOSE i \in 1..Len(notes) : notes[i].id = n]

\* the user clicks a note of the list: onSelectNote(note.id)
PanelSelect(n) ==
  /\ userSteps < MaxUserSteps
  /\ userSteps' = userSteps + 1
  /\ n \in Listed
  /\ n # noteId
  /\ noteId' = n
  /\ UNCHANGED <<store, editorVars, panelVars>>

\* handleCreateNote up to the await of the insert
CreateClick ==
  /\ userSteps < MaxUserSteps
  /\ userSteps' = userSteps + 1
  /\ \A x \in store : x.id # NewNote
  /\ \A q \in requests : q.kind # "create"
  /\ requests' = requests \cup {Request("create", NewNote, FALSE, 0)}
  /\ UNCHANGED <<noteId, store, editorVars, notes, now>>

\* the insert resolves with the new row
CreateOk(q) ==
  /\ q \in requests /\ q.kind = "create"
  /\ LET data == FullRow([id |-> q.id, title |-> Untitled, content |-> EmptyStr,
                          plain_text |-> EmptyStr], now)
     IN  /\ store' = store \cup {data}
         /\ notes' = (IF q.live THEN <<data>> \o notes ELSE notes)
  /\ noteId' = q.id
  /\ now' = now + 1
  /\ requests' = requests \ {q}
  /\ UNCHANGED <<userSteps, editorVars>>

\* the insert resolves with an error
CreateError(q) ==
  /\ q \in requests /\ q.kind = "create"
  /\ requests' = requests \ {q}
  /\ UNCHANGED <<userSteps, noteId, store, editorVars, notes, now>>

\* handlePinNote(n, note.is_pinned) up to the await of the update
PinClick(n) ==
  /\ userSteps < MaxUserSteps
  /\ userSteps' = userSteps + 1
  /\ n \in Listed
  /\ requests' = requests \cup {Request("pin", n, ~ListedNote(n).is_pinned, now)}
  /\ now' = now + 1
  /\ UNCHANGED <<noteId, store, editorVars, notes>>

\* setNotes of handlePinNote: the note gets the new pin state, the list is sorted
PinLocally(list, q) ==
  SortNotes([i \in 1..Len(list) |->
               IF list[i].id = q.id
               THEN [list[i] EXCEPT !.is_pinned = q.pin,
                                    !.pinned_at = IF q.pin THEN now ELSE 0]
               ELSE list[i]])

\* the update of handlePinNote resolves without error
PinOk(q) ==
  /\ q \in requests /\ q.kind = "pin"
  /\ store' = {IF x.id = q.id
               THEN [x EXCEPT !.is_pinned = q.pin,
                              !.pinned_at = IF q.pin THEN q.at ELSE @]
               ELSE x : x \in store}
  /\ notes' = (IF q.live THEN PinLocally(notes, q) ELSE notes)
  /\ now' = now + 1
  /\ requests' = requests \ {q}
  /\ UNCHANGED <<userSteps, noteId, editorVars>>

\* a request of NotesPanel whose storage call returned an error
Failure(q) == [kind |-> q.kind, id |-> q.id, ok |-> FALSE]

\* handlePinNote changing the list before it looks at the error
PinErrorOptimistic(q) ==
  /\ q \in requests /\ q.kind = "pin"
  /\ requests' = requests \ {q}
  /\ resolved' = resolved \cup {Failure(q)}
  /\ notes' = (IF q.live THEN PinLocally(notes, q) ELSE notes)
  /\ UNCHANGED <<userSteps, noteId, store, editorState, now>>

\* the update of handlePinNote resolves with an error: throw, then the
\* catch block logs and alerts
PinError(q) ==
  /\ q \in requests /\ q.kind = "pin"
  /\ requests' = requests \ {q}
  /\ resolved' = resolved \cup {Failure(q)}
  /\ UNCHANGED <<userSteps, noteId, store, editorState, notes, now>>

\* handleDeleteNote(n): the user declines the confirmation
DeleteDeclined(n) ==
  /\ userSteps < MaxUserSteps
  /\ userSteps' = userSteps + 1
  /\ n \in Listed
  /\ UNCHANGED <<noteId, store, editorVars, panelVars>>

\* handleDeleteNote(n), confirmed, up to the await of the update
DeleteClick(n) ==
  /\ userSteps < MaxUserSteps
  /\ userSteps' = userSteps + 1
  /\ n \in Listed
  /\ requests' = requests \cup {Request("delete", n, FALSE, 0)}
  /\ UNCHANGED <<noteId, store, editorVars, notes, now>>

\* the update of handleDeleteNote resolves without error
DeleteOk(q) ==
  /\ q \in requests /\ q.kind = "delete"
  /\ store' = {IF x.id = q.id THEN [x EXCEPT !.is_deleted = TRUE] ELSE x : x \in store}
  /\ notes' = (IF q.live THEN FilterOut(notes, q.id) ELSE notes)
  /\ noteId' = (IF q.current = q.id THEN NoNote ELSE noteId)
  /\ requests' = requests \ {q}
  /\ UNCHANGED <<userSteps, editorVars, now>>

\* the update of handleDeleteNote resolves with an error: throw, then the
\* catch block logs and alerts
DeleteError(q) ==
  /\ q \in requests /\ q.kind = "delete"
  /\ requests' = requests \ {q}
  /\ resolved' = resolved \cup {Failure(q)}
  /\ UNCHANGED <<userSteps, noteId, store, editorState, notes, now>>

\* loadNotes: the select resolves with the rows that are not deleted
LoadNotesOk(q) ==
  /\ q \in requests /\ q.kind = "load"
  /\ notes' = (IF q.live
               THEN SortNotes(OrderByUpdated({x \in store : ~x.is_deleted}))
               ELSE notes)
  /\ requests' = requests \ {q}
  /\ UNCHANGED <<userSteps, noteId, store, editorVars, now>>

\* loadNotes: the select resolves with an error
LoadNotesError(q) ==
  /\ q \in requests /\ q.kind = "load"
  /\ requests' = requests \ {q}
  /\ UNCHANGED <<userSteps, noteId, store, editorVars, notes, now>>

\* the panel is closed and opened again: a new NotesPanel mounts and calls
\* loadNotes
ReopenPanel ==
  /\ userSteps < MaxUserSteps
  /\ userSteps' = userSteps + 1
  /\ notes' = <<>>
  /\ requests' = Unmounted(requests) \cup {Request("load", NoNote, FALSE, 0)}
  /\ UNCHANGED <<noteId, store, editorVars, now>>

\* an autosave that writes every column of the row
AutosaveDataWholeRow(n, d) ==
  FullRow(NoteData(n, getHTML(d), getText(d)), now)

\* noteData of an autosave of note n with document d, with its updated_at
AutosaveData(n, d) ==
  NoteData(n, getHTML(d), getText(d)) @@ [updated_at |-> now]

\* an autosave of Editor for note n reaches the table
AutosaveUpsert(n, d) ==
  /\ userSteps < MaxUserSteps
  /\ userSteps' = userSteps + 1
  /\ \E x \in store : x.id = n
  /\ SaveGuard(n, getText(d))
  /\ store' = upsert(store, AutosaveData(n, d))
  /\ now' = now + 1
  /\ UNCHANGED <<noteId, editorVars, notes, requests>>

PanelNext ==
  \/ \E n \in Notes \cup {NewNote} : PanelSelect(n)
  \/ CreateClick
  \/ \E q \in requests : CreateOk(q)
  \/ \E q \in requests : CreateError(q)
  \/ \E n \in Notes \cup {NewNote} : PinClick(n)
  \/ \E q \in requests : PinOk(q)
  \/ \E q \in requests : PinError(q)
  \/ \E n \in Notes \cup {NewNote} : DeleteDeclined(n)
  \/ \E n \in Notes \cup {NewNote} : DeleteClick(n)
  \/ \E q \in requests : DeleteOk(q)
  \/ \E q \in requests : DeleteError(q)
  \/ \E q \in requests : LoadNotesOk(q)
  \/ \E q \in requests : LoadNotesError(q)
  \/ ReopenPanel
  \/ \E n \in Notes \cup {NewNote}, d \in Texts : AutosaveUpsert(n, d)

PanelSpec == PanelInit /\ [][PanelNext]_vars

\* ------------------------------------------------------------------ claims
\* the explicit title counts as absent
NoExplicitTitle(title) == title = EmptyStr \/ title = Untitled

\* the first line of s whose trimmed form is non-empty, trimmed
FirstNonBlankLine(s) ==
  LET lines == Split(s)
      nonblank == {i \in 1..Len(lines) : Trim(lines[i]) # EmptyStr}
  IN  Trim(lines[MinOf(nonblank)])

\* C1: debounce coalescing. A timer that issues a commit is the timer of the
\* last event of its burst: no timer scheduled later for the same note, with
\* non-blank plainText, is pending when it fires (so the burst gives one
\* commit, with the payload of its last event).
C1_Coalescing ==
  [][\A t \in timers :
       (t \notin timers' /\ nextCommit' = nextCommit + 1) =>
         ~\E u \in timers : /\ u.id > t.id
                            /\ u.noteId = t.noteId
                            /\ Trim(u.plainText) # EmptyStr]_vars

\* C2: content purity. Every upsert carries as content the html and as
\* plain_text the plainText of the change event that scheduled it.
C2_ContentPurity ==
  \A r \in inflight :
    /\ r.data.content = r.timer.content
    /\ r.data.plain_text = r.timer.plainText

\* an upsert in which the title was derived and the content is markup that
\* differs from the text it was derived from
C2_Witness ==
  \E r \in inflight :
    /\ NoExplicitTitle(r.explicit)
    /\ r.data.title = generateTitle(r.timer.plainText)
    /\ r.timer.content # r.timer.plainText
    /\ r.timer.plainText # Trim(r.timer.plainText)

\* C3: empty-content guard. No upsert carries an empty or whitespace-only
\* plain_text, and a timer with such a payload that fires issues no upsert and
\* leaves isSaving as it was.
C3_EmptyGuard ==
  /\ [](\A r \in inflight : Trim(r.data.plain_text) # EmptyStr)
  /\ [][\A t \in timers :
          (t \notin timers' /\ Trim(t.plainText) = EmptyStr) =>
            /\ inflight' = inflight
            /\ nextCommit' = nextCommit
            /\ isSaving' = isSaving]_vars

\* the only event so far was made on the loaded, selected note with a
\* whitespace-only document, its timer has fired and nothing was issued
C3_Witness ==
  /\ noteId # NoNote
  /\ shown = noteId
  /\ doc # EmptyStr
  /\ Trim(doc) = EmptyStr
  /\ nextTimer = 2
  /\ timers = {}
  /\ nextCommit = 1
  /\ ~isSaving

C5_AtMostOneTimer == Cardinality(timers) <= 1

\* C6: note-switch safety. An upsert carries the id of the note that was
\* selected when its timer was scheduled, so the payload of a timer scheduled
\* under A is never written under B.
C6_SwitchSafety ==
  \A r \in inflight : r.data.id = r.timer.noteId

\* an upsert issued after the selection changed from the note its timer was
\* scheduled under to another note
C6_Witness ==
  \E r \in inflight :
    /\ r.selected \in Notes
    /\ r.timer.noteId \in Notes
    /\ r.selected # r.timer.noteId
    /\ r.data.id = r.timer.noteId

\* C7: every upsert with id B carries content emitted by the editing surface
\* while it displayed B's loaded content.
C7_NoWrongNote ==
  \A r \in inflight : r.timer.shown = r.data.id

\* C8: switching the active note cancels the pending save: no timer scheduled
\* under a note is still pending once another note (or none) is selected.
C8_SwitchCancels ==
  \A t \in timers : t.noteId \in Notes => t.noteId = noteId

\* C9: explicit title precedence. An explicit title that is non-empty and not
\* "Untitled" is written exactly as entered.
C9_ExplicitTitle ==
  \A r \in inflight :
    ~NoExplicitTitle(r.explicit) => r.data.title = r.explicit

\* C9 as amended: an explicit title that is not whitespace-only and not
\* "Untitled" is written exactly as entered.
C9_ExplicitTitleNonBlank ==
  \A r \in inflight :
    (Trim(r.explicit) # EmptyStr /\ r.explicit # Untitled) =>
      r.data.title = r.explicit

\* an upsert whose explicit title has leading and trailing blanks and is
\* written with them
C9_Witness ==
  \E r \in inflight :
    /\ Trim(r.explicit) # EmptyStr
    /\ r.explicit # Untitled
    /\ r.explicit # Trim(r.explicit)
    /\ r.data.title = r.explicit

\* C10: title fallback. With the explicit title empty or "Untitled", the title
\* written is the first line with a non-empty trimmed form, trimmed.
C10_TitleFallback ==
  \A r \in inflight :
    NoExplicitTitle(r.explicit) =>
      r.data.title = FirstNonBlankLine(r.data.plain_text)

\* C10 as amended: ... trimmed and cut to its first MaxTitleLen characters.
C10_TitleFallbackTruncated ==
  \A r \in inflight :
    NoExplicitTitle(r.explicit) =>
      r.data.title = Substring0(FirstNonBlankLine(r.data.plain_text), MaxTitleLen)

\* an upsert with a derived title whose text starts with blank lines
C10_Witness ==
  \E r \in inflight :
    /\ NoExplicitTitle(r.explicit)
    /\ Trim(Head(Split(r.data.plain_text))) = EmptyStr
    /\ r.data.title = <<"a">>

\* C11: title truncation. When the title is derived and the first non-blank
\* line of plainText, trimmed, is longer than MaxTitleLen characters, the
\* title written is its first MaxTitleLen characters, of length MaxTitleLen,
\* while content and plain_text are written in full, as handed to saveNote.
C11_TitleTruncation ==
  \A r \in inflight :
    LET line == FirstNonBlankLine(r.data.plain_text)
    IN  ( /\ NoExplicitTitle(r.explicit) \/ Trim(r.explicit) = EmptyStr
          /\ Trim(r.data.plain_text) # EmptyStr
          /\ Len(line) > MaxTitleLen ) =>
        /\ Len(r.data.title) = MaxTitleLen
        /\ r.data.title = SubSeq(line, 1, MaxTitleLen)
        /\ r.data.plain_text = r.timer.plainText
        /\ r.data.content = r.timer.content
        /\ Len(r.data.plain_text) > MaxTitleLen
        /\ Len(r.data.content) > MaxTitleLen

\* an upsert with a derived title for a text whose first line is too long
C11_Witness ==
  \E r \in inflight :
    /\ NoExplicitTitle(r.explicit)
    /\ r.data.plain_text = getText(LongLine)
    /\ Len(r.data.title) = MaxTitleLen

\* C12: latest-title read. When the title was typed after a timer was
\* scheduled and before it fires, the commit that timer issues writes the
\* title of that last edit (or the title derived from the text when that
\* edit left the title absent), not the title of the time of scheduling.
C12_LatestTitle ==
  [][\A t \in timers :
       (t \notin timers' /\ nextCommit' = nextCommit + 1 /\ typed.at > t.id) =>
         \A r \in inflight' \ inflight :
           r.data.title = FinalTitle(typed.title, t.plainText)]_vars

\* C13: a title-only edit is saved. When the title of the selected, loaded
\* note was typed and the field left, the timer of that blur, on firing,
\* issues an upsert for that note.
C13_TitleEditSaved ==
  [][\A t \in timers :
       ( /\ t \notin timers' /\ nextTimer' = nextTimer
         /\ t.src = "blur"
         /\ t.noteId \in Notes /\ t.shown = t.noteId
         /\ typed.at \in 1..t.id ) =>
         \E r \in inflight' \ inflight : r.data.id = t.noteId]_vars

\* C14: a failed commit is not shown as saved. lastSaved is never the mark of
\* an upsert that failed, and the step in which an upsert fails leaves
\* lastSaved, note and every other state as it was, except that isSaving
\* becomes false (and the request is no longer in flight).
C14_FailedNotSaved ==
  /\ [](\A x \in resolved : ~x.ok => lastSaved # x.seq)
  /\ [][\A r \in inflight :
          (Resolution(r, FALSE) \in resolved' \ resolved) =>
            /\ lastSaved' = lastSaved
            /\ note' = note
            /\ isSaving' = FALSE
            /\ inflight' = inflight \ {r}
            /\ UNCHANGED <<noteId, doc, shown, saveTimeout, renderedTimeout,
                           editableTitle, editableTitleRef, timers, nextTimer,
                           nextCommit, fetches, store, userSteps, typed>>]_vars

\* an upsert failed after an earlier one had succeeded: lastSaved still is
\* the mark of the earlier one, note its row, and isSaving is false
C14_Witness ==
  \E x \in resolved :
    /\ ~x.ok
    /\ lastSaved # 0 /\ lastSaved < x.seq
    /\ note \in store
    /\ ~isSaving

\* the handles of the timers that issued an upsert, in flight or resolved
AttemptTimers == {r.timer.id : r \in inflight} \cup {x.timer.id : x \in resolved}

\* C15: no automatic retry. Every upsert issued so far was issued by a timer
\* of its own that has fired, so the attempts never outnumber the fired
\* timers; an upsert is issued only in a step in which a timer fires, and a
\* timer is scheduled only in a step of the user (a change of the document
\* or a blur of the title), so nothing follows a failure by itself.
C15_NoRetry ==
  /\ [](/\ Cardinality(AttemptTimers) = nextCommit - 1
        /\ Cardinality(inflight) + Cardinality(resolved) = nextCommit - 1
        /\ \A t \in timers : t.id \notin AttemptTimers)
  /\ [][/\ nextTimer' # nextTimer => userSteps' = userSteps + 1
        /\ nextCommit' # nextCommit =>
             \E t \in timers : t \notin timers' /\ nextTimer' = nextTimer
        /\ resolved' # resolved =>
             /\ timers' = timers /\ nextTimer' = nextTimer
             /\ nextCommit' = nextCommit /\ inflight' \subseteq inflight]_vars

\* an upsert has failed and nothing is pending: no timer, no upsert
C15_Witness ==
  /\ \E x \in resolved : ~x.ok
  /\ \A x \in resolved : ~x.ok
  /\ inflight = {}
  /\ timers = {}

\* C16: no concurrent commits for one note. No two upserts in flight carry
\* the same note id.
C16_NoConcurrentCommits ==
  \A r1, r2 \in inflight : r1 # r2 => r1.data.id # r2.data.id

\* C16 as amended: upserts for one note can be in flight together, but each
\* comes from a timer of its own, no longer pending, and they were issued in
\* the order in which their timers were scheduled.
C16_OneUpsertPerTimer ==
  /\ \A r \in inflight : \A t \in timers : t.id # r.timer.id
  /\ \A r1, r2 \in inflight :
       r1 # r2 => /\ r1.timer.id # r2.timer.id
                  /\ (r1.seq < r2.seq) <=> (r1.timer.id < r2.timer.id)

\* two upserts for the same note in flight, the second issued by a timer that
\* was scheduled after the first had been issued
C16_Witness ==
  \E r1, r2 \in inflight :
    /\ r1.seq < r2.seq
    /\ r1.data.id = r2.data.id
    /\ r1.timer.noteId = r2.timer.noteId
    /\ r1.timer.id < r2.timer.id
    /\ r1.seq <= r2.timer.issued
    /\ r1.data.content # r2.data.content

\* C17: out-of-order resolution. An upsert that resolves successfully makes
\* its row the note state and its mark lastSaved whatever has resolved
\* before, so an upsert overtaken by a later one for the same note leaves the
\* earlier row as note when it resolves last.
C17_LastResolvedWins ==
  [][\A r \in inflight :
       (Resolution(r, TRUE) \in resolved' \ resolved) =>
         /\ note' = r.data
         /\ lastSaved' = r.seq]_vars

\* two upserts for the same note were in flight together, the later one
\* (of a timer scheduled after the earlier one was issued) resolved first,
\* and note holds the row of the earlier one
C17_Witness ==
  \E x, y \in resolved :
    /\ x.ok /\ y.ok
    /\ x.seq < y.seq
    /\ x.seq <= y.timer.issued
    /\ x.data.id = y.data.id
    /\ x.data # y.data
    /\ lastSaved = x.seq
    /\ note = x.data
    /\ inflight = {}

\* C18: in-flight flag accuracy. isSaving is true exactly when an upsert is
\* in flight, and lastSaved changes only in a step in which an upsert
\* resolves successfully.
C18_InFlightFlag ==
  /\ [](isSaving <=> inflight # {})
  /\ [][lastSaved' # lastSaved =>
          \E r \in inflight : Resolution(r, TRUE) \in resolved' \ resolved]_vars

\* C19: switching the note resets the save status. A step that changes
\* noteId, to another note or to none, leaves lastSaved cleared.
C19_SwitchResetsSaved ==
  [][noteId' # noteId => lastSaved' = 0]_vars

\* C20: commit idempotence. The table never holds two rows with one id; when
\* an upsert succeeds, the one row of its id has the title, content and
\* plain_text of its payload and the rows of other ids are untouched; and
\* when the same payload had been written just before, the table is left
\* exactly as it was.
C20_CommitIdempotent ==
  /\ [](\A n \in Notes : Cardinality(Select(store, n)) = 1)
  /\ [][\A r \in inflight :
          (Resolution(r, TRUE) \in resolved' \ resolved) =>
            /\ Select(store', r.data.id) = {r.data}
            /\ \A n \in Notes \ {r.data.id} : Select(store', n) = Select(store, n)
            /\ (r.data \in store => store' = store)]_vars

\* the same payload was committed twice and the table holds one row for its
\* id, equal to the payload
C20_Witness ==
  \E x, y \in resolved :
    /\ x.ok /\ y.ok
    /\ y.seq = x.seq + 1
    /\ lastSaved = y.seq
    /\ x.data = y.data
    /\ Select(store, x.data.id) = {x.data}
    /\ x.data \notin {InitStore[n] : n \in Notes}

\* C22: auto-save after 1 second. The saveNote invocation a change event
\* schedules is set to run 1000 ms after the event.
C22_OneSecondDelay ==
  \A t \in timers : t.delay = 1000

\* C24: the last edit is not dropped. A pending timer of a change event on a
\* selected, loaded note with non-blank plainText leaves the set of timers
\* only by firing, or by being cleared by a later event of the same note
\* whose timer is then pending: it is never cleared by an event of another
\* note, which would leave its payload without any commit attempt.
C24_LastEditKept ==
  [][\A t \in timers :
       ( /\ t \notin timers' /\ nextTimer' # nextTimer
         /\ t.src = "update"
         /\ t.shown = t.noteId
         /\ SaveGuard(t.noteId, t.plainText) ) =>
         \E u \in timers' :
           /\ u.id > t.id
           /\ u.noteId = t.noteId]_vars

\* C25: no title leaks between notes. As long as the user typed no title,
\* the title an upsert writes for note N (for an event made while the
\* surface showed N, its timer firing after the selection changed to
\* another note or to none) is derived from its plainText, or
\* is a title stored for N: the one N had before the session, or one a
\* successful upsert wrote for N. It is never the title of another note.
C25_NoTitleLeak ==
  typed = NoEdit =>
    \A r \in inflight :
      \/ r.timer.shown # r.data.id
      \/ r.selected = r.data.id
      \/ r.data.title = generateTitle(r.data.plain_text)
      \/ r.data.title = InitStore[r.data.id].title
      \/ \E x \in resolved :
            x.ok /\ x.data.id = r.data.id /\ x.data.title = r.data.title

\* C26: load ordering. While the selection stays on a note whose stored
\* content and title are shown, a fetch response that leaves no fetch in
\* flight leaves them shown: the response of a fetch issued for an earlier
\* selection does not replace them.
C26_LoadOrdering ==
  [][( /\ noteId \in Notes /\ noteId' = noteId
       /\ shown = noteId
       /\ FetchesInFlight > 0 /\ FetchesInFlight' = 0 ) =>
       shown' = noteId]_vars

\* C27: a title never edited keeps following the text. Note B carries a
\* derived title and the user types no title: every upsert for B, made while
\* B is selected and shown with its stored title loaded into the title
\* field, writes the title derived from the committed plainText.
C27_DerivedTitleFollows ==
  typed = NoEdit =>
    \A r \in inflight :
      ( /\ r.data.id = "B" /\ r.selected = "B" /\ r.timer.shown = "B"
        /\ InitStore["B"].title = generateTitle(InitStore["B"].plain_text)
        /\ r.explicit = InitStore["B"].title ) =>
        r.data.title = generateTitle(r.data.plain_text)

\* C29: the title written is never blank. Every upsert issued carries a
\* title that is neither empty nor whitespace-only, whatever the explicit
\* title and the (non-blank) plainText are.
C29_TitleNotBlank ==
  \A r \in inflight :
    /\ r.data.title # EmptyStr
    /\ Trim(r.data.title) # EmptyStr

\* an upsert issued with a whitespace-only explicit title for a text that
\* starts with a blank line: the title written is the first non-blank line
C29_Witness ==
  \E r \in inflight :
    /\ r.explicit = <<" ">>
    /\ Trim(Head(Split(r.data.plain_text))) = EmptyStr
    /\ r.data.title = <<"a">>

\* C21: pinned notes stay on top. In the list of NotesPanel every pinned note
\* precedes every note that is not pinned.
C21_PinnedFirst ==
  \A i, j \in 1..Len(notes) :
    (i < j /\ notes[j].is_pinned) => notes[i].is_pinned

\* C23: a deleted note does not stay selected. When a confirmed delete of
\* note N resolves without error and N is the selected note, the selection
\* is cleared; a declined confirmation issues no request and leaves the
\* list and the selection as they were.
C23_DeleteClearsSelection ==
  [][/\ \A q \in requests :
          ( /\ q.kind = "delete" /\ q \notin requests'
            /\ \E x \in store' \ store : x.id = q.id /\ x.is_deleted
            /\ noteId = q.id ) =>
            noteId' = NoNote
     /\ (userSteps' # userSteps /\ requests' = requests /\ notes' = notes /\ now' = now) =>
          store' = store]_vars

\* C28: the frame of a commit. An autosave upsert leaves is_deleted,
\* is_pinned and pinned_at of every row, the number of rows and the list as
\* they were; a row that is deleted stays deleted, and a note that enters
\* the list is a row that is not deleted.
C28_AutosaveFrame ==
  [][/\ (now' # now /\ userSteps' # userSteps /\ requests' = requests) =>
          /\ notes' = notes
          /\ Cardinality(store') = Cardinality(store)
          /\ \A x \in store : \E y \in store' :
                /\ y.id = x.id
                /\ y.is_deleted = x.is_deleted
                /\ y.is_pinned = x.is_pinned
                /\ y.pinned_at = x.pinned_at
     /\ \A x \in store, y \in store' : (x.id = y.id /\ x.is_deleted) => y.is_deleted
     /\ \A n \in Listed' \ Listed :
          \E y \in store' : y.id = n /\ ~y.is_deleted]_vars

\* an autosave has written the row of a note that is pinned and deleted
C28_Witness ==
  \E x \in store :
    /\ x.is_deleted /\ x.is_pinned
    /\ x.pinned_at > 0 /\ x.updated_at > x.pinned_at
    /\ x.plain_text # InitStore[x.id].plain_text
    /\ x.id \notin Listed
    /\ requests = {}

\* C30: a failed update of handlePinNote or handleDeleteNote leaves the
\* list and the selection as they were.
C30_FailureKeepsList ==
  [][\A x \in resolved' \ resolved :
       (x.kind \in {"pin", "delete"} /\ ~x.ok) =>
         (notes' = notes /\ noteId' = noteId)]_vars

\* a pin and a delete have failed with notes listed and a note selected
C30_Witness ==
  /\ \E x \in resolved : x.kind = "pin" /\ ~x.ok
  /\ \E x \in resolved : x.kind = "delete" /\ ~x.ok
  /\ Len(notes) = 2
  /\ noteId \in Listed

====
